---- MODULE Spec2Model ----
(***************************************************************************)
(* A model of snekgame: the simulation state machine (game.rs), the turn   *)
(* buffer (input.rs), the driving loop (game_loop.rs) and the tile         *)
(* derivation of the renderer (render.rs).                                 *)
(***************************************************************************)
EXTENDS Integers, Sequences, FiniteSets, TLC

(* ------------------------------ bounds --------------------------------- *)
\* boards of at most MaxCells cells (every width x height with w*h <= MaxCells)
MaxCells == 6
\* configured food counts 0..MaxFoodN
MaxFoodN == 2
\* food_to_speed_up drawn from 0..MaxSpeedUp
MaxSpeedUp == 2
\* boards of at most LoopMaxCells cells under the driving loop
LoopMaxCells == 2
\* configured food counts 0..LoopMaxFoodN under the driving loop
LoopMaxFoodN == 1
\* food_to_speed_up drawn from 0..LoopMaxSpeedUp under the driving loop
LoopMaxSpeedUp == 0
\* food counts 0..ScenarioFoodN of the 10x10 wall scenario
ScenarioFoodN == 1
\* boards of at most RenderMaxCells cells in the rendered frames
RenderMaxCells == 4
\* configured food counts 0..RenderMaxFoodN in the rendered frames
RenderMaxFoodN == 1
\* at most RenderMaxKeys direction keys read per rendered frame
RenderMaxKeys == 1

(* --------------------------- Option<T> --------------------------------- *)
None == <<>>
Some(v) == <<v>>
IsSome(o) == o # <<>>
Unwrap(o) == o[1]

(* ------------------------------ Dir ------------------------------------ *)
Left == 0
Right == 1
Up == 2
Down == 3
Dir == {Left, Right, Up, Down}

\* `d as u8 & 0b10`
AxisBit(d) == ((d \div 2) % 2) * 2

\* mutant: the mask takes the sign bit instead of the axis bit
is_perpendicular_sign_bit(self, other) == (self % 2) # (other % 2)

is_perpendicular(self, other) == AxisBit(self) # AxisBit(other)

(* ----------------------------- Coords ---------------------------------- *)
Coords(x, y) == [x |-> x, y |-> y]

\* mutant: the modulo forgotten when moving right or down
move_wrapping_no_modulo(self, dir, w, h) ==
    CASE dir = Up    -> [self EXCEPT !.y = (self.y + h - 1) % h]
      [] dir = Down  -> [self EXCEPT !.y = self.y + 1]
      [] dir = Left  -> [self EXCEPT !.x = (self.x + w - 1) % w]
      [] dir = Right -> [self EXCEPT !.x = self.x + 1]

\* mutant: width and height swapped in the upward move
move_wrapping_swapped(self, dir, w, h) ==
    CASE dir = Up    -> [self EXCEPT !.y = (self.y + w - 1) % h]
      [] dir = Down  -> [self EXCEPT !.y = (self.y + 1) % h]
      [] dir = Left  -> [self EXCEPT !.x = (self.x + w - 1) % w]
      [] dir = Right -> [self EXCEPT !.x = (self.x + 1) % w]

move_wrapping(self, dir, w, h) ==
    CASE dir = Up    -> [self EXCEPT !.y = (self.y + h - 1) % h]
      [] dir = Down  -> [self EXCEPT !.y = (self.y + 1) % h]
      [] dir = Left  -> [self EXCEPT !.x = (self.x + w - 1) % w]
      [] dir = Right -> [self EXCEPT !.x = (self.x + 1) % w]

\* mutant: the edge tests off by one (`< h`, `< w`)
move_bumping_off_by_one(self, dir, w, h) ==
    CASE dir = Up /\ self.y > 0    -> Some([self EXCEPT !.y = self.y - 1])
      [] dir = Down /\ self.y < h  -> Some([self EXCEPT !.y = self.y + 1])
      [] dir = Left /\ self.x > 0  -> Some([self EXCEPT !.x = self.x - 1])
      [] dir = Right /\ self.x < w -> Some([self EXCEPT !.x = self.x + 1])
      [] OTHER -> None

\* mutant: no edge test in the downward move
move_bumping_down_untested(self, dir, w, h) ==
    CASE dir = Up /\ self.y > 0        -> Some([self EXCEPT !.y = self.y - 1])
      [] dir = Down                    -> Some([self EXCEPT !.y = self.y + 1])
      [] dir = Left /\ self.x > 0      -> Some([self EXCEPT !.x = self.x - 1])
      [] dir = Right /\ self.x < w - 1 -> Some([self EXCEPT !.x = self.x + 1])
      [] OTHER -> None

move_bumping(self, dir, w, h) ==
    CASE dir = Up /\ self.y > 0        -> Some([self EXCEPT !.y = self.y - 1])
      [] dir = Down /\ self.y < h - 1  -> Some([self EXCEPT !.y = self.y + 1])
      [] dir = Left /\ self.x > 0      -> Some([self EXCEPT !.x = self.x - 1])
      [] dir = Right /\ self.x < w - 1 -> Some([self EXCEPT !.x = self.x + 1])
      [] OTHER -> None

\* what a call that may panic ends in: Returned(v), or Panic
Panic == <<>>
Returned(v) == <<v>>

\* the match arms of compare, first to last
compare(self, other, w, h) ==
    IF self.x = 0 /\ other.x = w - 1 THEN Returned(Right)
    ELSE IF self.x = w - 1 /\ other.x = 0 THEN Returned(Left)
    ELSE IF self.x > other.x THEN Returned(Right)
    ELSE IF self.x < other.x THEN Returned(Left)
    ELSE IF self.y = 0 /\ other.y = h - 1 THEN Returned(Down)
    ELSE IF self.y = h - 1 /\ other.y = 0 THEN Returned(Up)
    ELSE IF self.y > other.y THEN Returned(Down)
    ELSE IF self.y < other.y THEN Returned(Up)
    ELSE Panic

(* --------------------------- GameStatus -------------------------------- *)
Win == "Win"
Dead == "Dead"
Ongoing == "Ongoing"

(* ----------------------------- u32 ------------------------------------- *)
\* TLC's integers are 32-bit signed, so a u32 that may come near u32::MAX
\* (the speed) is kept as two 16-bit limbs <<hi, lo>>, value hi * 2^16 + lo
Limb == 65536

u32(n) == <<n \div Limb, n % Limb>>

U32Max == <<Limb - 1, Limb - 1>>

u32_le(a, b) == a[1] < b[1] \/ (a[1] = b[1] /\ a[2] <= b[2])

\* mutant: a wrapping addition
wrapping_add(a, b) ==
    LET lo == a[2] + b
        hi == a[1] + lo \div Limb
    IN  <<hi % Limb, lo % Limb>>

\* u32::saturating_add(a, b) for a limb pair a and a small b (b < 2^31 - 2^16)
saturating_add(a, b) ==
    LET lo == a[2] + b
        hi == a[1] + lo \div Limb
    IN  IF hi >= Limb THEN U32Max ELSE <<hi, lo % Limb>>

(* ------------------------- sequence helpers ---------------------------- *)
Elems(s) == {s[i] : i \in 1..Len(s)}

\* VecDeque::pop_back: the deque without its last element
pop_back(s) == SubSeq(s, 1, Len(s) - 1)

\* VecDeque::push_front
push_front(s, e) == <<e>> \o s

\* mutant: the first food is removed, whichever was hit
remove_front(s, i) == Tail(s)

\* Vec::remove(i), i 1-based here
remove(s, i) == SubSeq(s, 1, i - 1) \o SubSeq(s, i + 1, Len(s))

\* Iterator::position: the first index whose food sits on `pos`, 0 if none
position(fd, pos) ==
    IF \E i \in 1..Len(fd) : fd[i].pos = pos
    THEN CHOOSE i \in 1..Len(fd) :
            /\ fd[i].pos = pos
            /\ \A j \in 1..(i - 1) : fd[j].pos # pos
    ELSE 0

(* ------------------------ find_new_food_place -------------------------- *)
\* Food.id is opaque to the simulation (only the theme reads it): one value
\* stands for the usize the generator draws
FoodIds == {0}

\* mutant: the foods already placed are not counted as taken
taken_spots_snake_only(snk, fd) == Elems(snk)

taken_spots(snk, fd) == Elems(snk) \cup {fd[i].pos : i \in 1..Len(fd)}

spots(c, snk, fd) == c.height * c.width - Cardinality(taken_spots(snk, fd))

\* mutant: the loop left on `i >= choosen_spot`
RECURSIVE scan_breaks_early(_, _, _, _, _)
scan_breaks_early(c, taken, coords, i, choosen_spot) ==
    LET i2 == IF coords \notin taken THEN i + 1 ELSE i
    IN  IF i2 >= choosen_spot
        THEN coords
        ELSE scan_breaks_early(c, taken,
                  IF coords.x + 1 >= c.width
                  THEN Coords(0, coords.y + 1)
                  ELSE Coords(coords.x + 1, coords.y),
                  i2, choosen_spot)

\* the scan loop: `i` free cells counted so far, `coords` the cell looked at
RECURSIVE scan(_, _, _, _, _)
scan(c, taken, coords, i, choosen_spot) ==
    LET i2 == IF coords \notin taken THEN i + 1 ELSE i
    IN  IF i2 > choosen_spot
        THEN coords
        ELSE scan(c, taken,
                  IF coords.x + 1 >= c.width
                  THEN Coords(0, coords.y + 1)
                  ELSE Coords(coords.x + 1, coords.y),
                  i2, choosen_spot)

\* mutant: the last free cell is never handed out (`spots <= 1`)
sampler_runs_early_none(c, snk, fd) ==
    IF spots(c, snk, fd) <= 1
    THEN {[choosen_spot |-> None, out |-> None]}
    ELSE {[choosen_spot |-> Some(k),
           out |-> Some([pos |-> scan(c, taken_spots(snk, fd), Coords(0, 0), 0, k),
                         id  |-> id])] :
            k \in 0..(spots(c, snk, fd) - 1), id \in FoodIds}

\* every run of find_new_food_place the seeded generator allows: the number
\* gen_range drew (None when it was not asked) and the value returned
sampler_runs(c, snk, fd) ==
    IF spots(c, snk, fd) = 0
    THEN {[choosen_spot |-> None, out |-> None]}
    ELSE {[choosen_spot |-> Some(k),
           out |-> Some([pos |-> scan(c, taken_spots(snk, fd), Coords(0, 0), 0, k),
                         id  |-> id])] :
            k \in 0..(spots(c, snk, fd) - 1), id \in FoodIds}

\* every result of find_new_food_place: None, or Some(Food)
find_new_food_place(c, snk, fd) == {r.out : r \in sampler_runs(c, snk, fd)}

(* --------------------------- GameState::new ---------------------------- *)
initial_snake(c) ==
    LET y == c.height \div 2
        head_x == (c.width - 1) \div 2 + c.initial_length \div 2
        tail_x == head_x + 1 - c.initial_length
    IN  [i \in 1..(head_x - tail_x + 1) |-> Coords(head_x - (i - 1), y)]

\* mutant: a full board does not end the loop with Win
RECURSIVE place_initial_food_no_win(_, _, _, _)
place_initial_food_no_win(c, snk, fd, n) ==
    IF n = 0
    THEN {[food |-> fd, status |-> Ongoing]}
    ELSE UNION {
           IF IsSome(r)
           THEN place_initial_food_no_win(c, snk, Append(fd, Unwrap(r)), n - 1)
           ELSE {[food |-> fd, status |-> Ongoing]}
           : r \in find_new_food_place(c, snk, fd)}

\* the food loop of `new`: every (food, status) it can end with
RECURSIVE place_initial_food(_, _, _, _)
place_initial_food(c, snk, fd, n) ==
    IF n = 0
    THEN {[food |-> fd, status |-> Ongoing]}
    ELSE UNION {
           IF IsSome(r)
           THEN place_initial_food(c, snk, Append(fd, Unwrap(r)), n - 1)
           ELSE {[food |-> fd, status |-> Win]}
           : r \in find_new_food_place(c, snk, fd)}

new(c) ==
    {[conf |-> c,
      snake |-> initial_snake(c),
      snake_dir |-> Right,
      food |-> r.food,
      status |-> r.status,
      score |-> 0,
      speed |-> c.initial_speed] :
        r \in place_initial_food(c, initial_snake(c), <<>>, c.food_n)}

(* ------------------------ GameState::make_step ------------------------- *)
\* mutant: the wall policy is ignored, every move wraps
new_head_always_wraps(g, dir) ==
    Some(move_wrapping(g.snake[1], dir, g.conf.width, g.conf.height))

\* the candidate head under the wall policy; None is the wall
new_head(g, dir) ==
    IF g.conf.solid_walls
    THEN move_bumping(g.snake[1], dir, g.conf.width, g.conf.height)
    ELSE Some(move_wrapping(g.snake[1], dir, g.conf.width, g.conf.height))

\* mutant: the collision test made before the tail is popped
contains_before_pop(snk, new_head_pos) == new_head_pos \in Elems(snk)

\* `self.snake.contains(&new_head_pos)`, asked after the tail was popped
contains_after_pop(snk, new_head_pos) == new_head_pos \in Elems(pop_back(snk))

\* mutant: the increase is added to the current speed, not the initial one
speed_up_accumulates(g, score) ==
    IF g.conf.food_to_speed_up # 0
    THEN saturating_add(g.speed, score \div g.conf.food_to_speed_up)
    ELSE g.speed

\* the speed after a food is eaten
speed_up(g, score) ==
    IF g.conf.food_to_speed_up # 0
    THEN saturating_add(g.conf.initial_speed, score \div g.conf.food_to_speed_up)
    ELSE g.speed

\* mutant: the snake grows by repeating its last element
push_back_last(moved, old_tail) == Append(moved, moved[Len(moved)])

\* `self.snake.push_back(old_tail)`
push_back_old_tail(moved, old_tail) == Append(moved, old_tail)

\* mutant: the score is counted only when a new food was placed
eat_scores_on_placement(g, dir, moved, old_tail, i) ==
    LET fd == remove(g.food, i)
        snk == push_back_old_tail(moved, old_tail)
        scored(r) == IF IsSome(r) THEN g.score + 1 ELSE g.score
    IN  {[g EXCEPT !.snake_dir = dir,
                   !.snake = snk,
                   !.food = IF IsSome(r) THEN Append(fd, Unwrap(r)) ELSE fd,
                   !.status = IF IsSome(r) THEN g.status ELSE Win,
                   !.score = scored(r),
                   !.speed = speed_up(g, scored(r))] :
            r \in find_new_food_place(g.conf, snk, fd)}

\* the branch taken when the new head is on food number i
eat(g, dir, moved, old_tail, i) ==
    LET fd == remove(g.food, i)
        snk == push_back_old_tail(moved, old_tail)
    IN  {[g EXCEPT !.snake_dir = dir,
                   !.snake = snk,
                   !.food = IF IsSome(r) THEN Append(fd, Unwrap(r)) ELSE fd,
                   !.status = IF IsSome(r) THEN g.status ELSE Win,
                   !.score = g.score + 1,
                   !.speed = speed_up(g, g.score + 1)] :
            r \in find_new_food_place(g.conf, snk, fd)}

\* every game state one call make_step(turn) can leave behind
make_step(g, turn) ==
    LET dir == IF IsSome(turn) THEN Unwrap(turn) ELSE g.snake_dir
        nh == new_head(g, dir)
    IN  IF ~IsSome(nh)
        THEN {[g EXCEPT !.snake_dir = dir, !.status = Dead]}
        ELSE LET new_head_pos == Unwrap(nh)
                 old_tail == g.snake[Len(g.snake)]
             IN  IF contains_after_pop(g.snake, new_head_pos)
                 THEN {[g EXCEPT !.snake_dir = dir,
                                 !.snake = pop_back(g.snake),
                                 !.status = Dead]}
                 ELSE LET moved == push_front(pop_back(g.snake), new_head_pos)
                          i == position(g.food, new_head_pos)
                      IN  IF i # 0
                          THEN eat(g, dir, moved, old_tail, i)
                          ELSE {[g EXCEPT !.snake_dir = dir, !.snake = moved]}

(* --------------------------- InputBuffer ------------------------------- *)
\* the buffer is modelled by what it derefs to, `internal[..size]`; the slots
\* past `size` are never read
CAP == 5

\* mutant: the capacity test off by one (`size <= CAP`)
enqueue_one_more(buf, input) == IF Len(buf) <= CAP THEN Append(buf, input) ELSE buf

\* InputBuffer::enqueue
enqueue(buf, input) == IF Len(buf) < CAP THEN Append(buf, input) ELSE buf

\* mutant: perpendicularity asked of every offer, not only of the first
buffer_input_always_perpendicular(buf, dir, input) ==
    IF ~is_perpendicular(input, dir)
    THEN buf
    ELSE IF Len(buf) > 0 /\ buf[Len(buf)] = input
         THEN buf
         ELSE enqueue(buf, input)

\* buffer_input
buffer_input(buf, dir, input) ==
    IF Len(buf) = 0 /\ ~is_perpendicular(input, dir)
    THEN buf
    ELSE IF Len(buf) > 0 /\ buf[Len(buf)] = input
         THEN buf
         ELSE enqueue(buf, input)

\* mutant: only the oldest entry is looked at (`if let` for `while let`)
turn_to_do_first_only(buf, dir) ==
    IF Len(buf) = 0
    THEN [turn |-> None, buf |-> buf]
    ELSE IF is_perpendicular(buf[1], dir)
         THEN [turn |-> Some(buf[1]), buf |-> Tail(buf)]
         ELSE [turn |-> None, buf |-> Tail(buf)]

\* mutant: the oldest entry is returned unchecked
turn_to_do_unchecked(buf, dir) ==
    IF Len(buf) = 0
    THEN [turn |-> None, buf |-> buf]
    ELSE [turn |-> Some(buf[1]), buf |-> Tail(buf)]

\* turn_to_do: dequeue until an entry is perpendicular to the snake's direction
RECURSIVE turn_to_do(_, _)
turn_to_do(buf, dir) ==
    IF Len(buf) = 0
    THEN [turn |-> None, buf |-> buf]
    ELSE IF is_perpendicular(buf[1], dir)
         THEN [turn |-> Some(buf[1]), buf |-> Tail(buf)]
         ELSE turn_to_do(Tail(buf), dir)

\* handle_inputs on a run of direction keys: each is offered to the buffer
RECURSIVE handle_inputs(_, _, _)
handle_inputs(buf, dir, keys) ==
    IF keys = <<>>
    THEN buf
    ELSE handle_inputs(buffer_input(buf, dir, Head(keys)), dir, Tail(keys))

(* ---------------------------- FieldCell -------------------------------- *)
FieldCell(name) == [cell |-> name]
Empty == FieldCell("Empty")
Food(id) == [cell |-> "Food", id |-> id]

head_from(dir) ==
    CASE dir = Up    -> FieldCell("HeadUp")
      [] dir = Down  -> FieldCell("HeadDown")
      [] dir = Left  -> FieldCell("HeadLeft")
      [] dir = Right -> FieldCell("HeadRight")

tail_from(dir) ==
    CASE dir = Up    -> FieldCell("TailUp")
      [] dir = Down  -> FieldCell("TailDown")
      [] dir = Left  -> FieldCell("TailLeft")
      [] dir = Right -> FieldCell("TailRight")

body_from(dir1, dir2) ==
    LET pair == <<dir1, dir2>>
    IN  CASE pair \in {<<Down, Up>>, <<Up, Down>>} -> FieldCell("BodyVertical")
          [] pair \in {<<Right, Left>>, <<Left, Right>>} ->
                FieldCell("BodyHorizontal")
          [] pair \in {<<Up, Left>>, <<Left, Up>>} -> FieldCell("BodyUpLeft")
          [] pair \in {<<Down, Left>>, <<Left, Down>>} ->
                FieldCell("BodyDownLeft")
          [] pair \in {<<Up, Right>>, <<Right, Up>>} -> FieldCell("BodyUpRight")
          [] pair \in {<<Down, Right>>, <<Right, Down>>} ->
                FieldCell("BodyDownRight")
          [] OTHER -> FieldCell("BodyHorizontal")

(* ---------------------------- render_game ------------------------------ *)
\* screen[[p.y, p.x]] = cell: an index off the screen panics
set_cell(screen, p, cell) ==
    IF p \in DOMAIN screen
    THEN Returned([screen EXCEPT ![p] = cell])
    ELSE Panic

\* the loop over snake.windows(3), from the window that starts at i
RECURSIVE mark_bodies(_, _, _, _, _)
mark_bodies(screen, snk, i, w, h) ==
    IF i + 2 > Len(snk)
    THEN Returned(screen)
    ELSE LET el == snk[i + 1]
             dir1 == compare(el, snk[i], w, h)
             dir2 == compare(el, snk[i + 2], w, h)
         IN  IF dir1 = Panic \/ dir2 = Panic
             THEN Panic
             ELSE LET marked == set_cell(screen, el,
                                         body_from(dir1[1], dir2[1]))
                  IN  IF marked = Panic
                      THEN Panic
                      ELSE mark_bodies(marked[1], snk, i + 1, w, h)

\* mutant: the tail is marked without the length test
mark_tail_unguarded(screen, snk, w, h) ==
    IF Len(snk) < 1 \/ Len(snk) - 1 < 1
    THEN Panic
    ELSE LET dir == compare(snk[Len(snk)], snk[Len(snk) - 1], w, h)
         IN  IF dir = Panic
             THEN Panic
             ELSE set_cell(screen, snk[Len(snk)], tail_from(dir[1]))

\* `if let [.., before_tail, tail] = snake`
mark_tail(screen, snk, w, h) ==
    IF Len(snk) < 2
    THEN Returned(screen)
    ELSE LET dir == compare(snk[Len(snk)], snk[Len(snk) - 1], w, h)
         IN  IF dir = Panic
             THEN Panic
             ELSE set_cell(screen, snk[Len(snk)], tail_from(dir[1]))

\* the loop over game.food(), from the i-th food
RECURSIVE mark_food(_, _, _)
mark_food(screen, fd, i) ==
    IF i > Len(fd)
    THEN Returned(screen)
    ELSE LET marked == set_cell(screen, fd[i].pos, Food(fd[i].id))
         IN  IF marked = Panic
             THEN Panic
             ELSE mark_food(marked[1], fd, i + 1)

\* the screen render_game sets up for game g, or Panic
render_game(g) ==
    LET w == g.conf.width
        h == g.conf.height
        blank == [p \in {Coords(x, y) : x \in 0..(w - 1), y \in 0..(h - 1)}
                    |-> Empty]
        bodies == mark_bodies(blank, g.snake, 1, w, h)
    IN  IF bodies = Panic \/ Len(g.snake) = 0
        THEN Panic
        ELSE LET headed == set_cell(bodies[1], g.snake[1],
                                    head_from(g.snake_dir))
             IN  IF headed = Panic
                 THEN Panic
                 ELSE LET tailed == mark_tail(headed[1], g.snake, w, h)
                      IN  IF tailed = Panic
                          THEN Panic
                          ELSE mark_food(tailed[1], g.food, 1)

(* ------------------------------ state ---------------------------------- *)
VARIABLES
    conf,         \* GameState.conf
    snake,        \* GameState.snake, head first
    snake_dir,    \* GameState.snake_dir
    food,         \* GameState.food
    status,       \* GameState.status
    score,        \* GameState.score
    speed,        \* GameState.speed
    input_buf,    \* run: input_buf
    clear,        \* handle_inputs: clear
    pc,           \* run: "poll" inside handle_inputs, "done" after the loop
    game_result,  \* run: game_result, None while the loop runs
    pre,          \* the game as the latest make_step call found it, and its turn
    app           \* the latest call of a buffer, sampler or coordinate function:
                  \* its name, its arguments and what it returned

game_vars == <<conf, snake, snake_dir, food, status, score, speed>>
loop_vars == <<input_buf, clear, pc, game_result>>
vars == <<game_vars, loop_vars, pre, app>>

game == [conf |-> conf, snake |-> snake, snake_dir |-> snake_dir, food |-> food,
         status |-> status, score |-> score, speed |-> speed]

(* ------------------------------ configs -------------------------------- *)
\* a usual speed, and one next to u32::MAX
InitialSpeeds == {u32(1), <<Limb - 1, Limb - 2>>}

GameConf(cells, foods, speed_ups, speeds) ==
    {[food_to_speed_up |-> t, food_n |-> n, initial_speed |-> s, height |-> h,
      width |-> w, initial_length |-> l, solid_walls |-> sw] :
        t \in 0..speed_ups, n \in 0..foods, s \in speeds,
        h \in 0..cells, w \in 0..cells, l \in 0..cells, sw \in BOOLEAN}

\* what create_game_conf lets through
create_game_conf(c) ==
    /\ c.height # 0
    /\ c.width # 0
    /\ c.initial_speed # u32(0)
    /\ c.initial_length # 0
    /\ ~(c.initial_length > c.width)

Turns == {None} \cup {Some(d) : d \in Dir}

NoCall(g) == [called |-> FALSE, turn |-> None, game |-> g]

NoApp == [fn |-> "none"]

\* the state `run` starts from, given the game main built
Start(g) ==
    /\ conf = g.conf
    /\ snake = g.snake
    /\ snake_dir = g.snake_dir
    /\ food = g.food
    /\ status = g.status
    /\ score = g.score
    /\ speed = g.speed
    /\ input_buf = <<>>
    /\ clear = FALSE
    /\ pc = "poll"
    /\ game_result = None
    /\ pre = NoCall(g)
    /\ app = NoApp

Init ==
    \E c \in GameConf(MaxCells, MaxFoodN, MaxSpeedUp, InitialSpeeds) :
        /\ create_game_conf(c)
        /\ c.width * c.height <= MaxCells
        /\ \E g \in new(c) : Start(g)

\* one call game.make_step(turn)
Step(turn) ==
    \E g \in make_step(game, turn) :
        /\ snake' = g.snake
        /\ snake_dir' = g.snake_dir
        /\ food' = g.food
        /\ status' = g.status
        /\ score' = g.score
        /\ speed' = g.speed
        /\ pre' = [called |-> TRUE, turn |-> turn, game |-> game]
        /\ UNCHANGED conf

(* ------------- the simulation alone, any turn handed to it ------------- *)
\* a caller that keeps the contract: make_step only while Ongoing
MakeStep ==
    /\ status = Ongoing
    /\ \E turn \in Turns : Step(turn)
    /\ UNCHANGED <<loop_vars, app>>

Next == MakeStep

Spec == Init /\ [][Next]_vars

(* ------------------- the 10x10 wall scenario --------------------------- *)
\* --walls on the default 10x10-sized game of the scenario: length 3,
\* speed 6, food_to_speed_up 4
InitWall ==
    \E n \in 0..ScenarioFoodN :
        \E g \in new([food_to_speed_up |-> 4, food_n |-> n,
                      initial_speed |-> u32(6), height |-> 10, width |-> 10,
                      initial_length |-> 3, solid_walls |-> TRUE]) : Start(g)

StepStraight ==
    /\ status = Ongoing
    /\ Step(None)
    /\ UNCHANGED <<loop_vars, app>>

NextWall == StepStraight

SpecWall == InitWall /\ [][NextWall]_vars

(* ------------------- find_new_food_place alone ------------------------- *)
BoardCells(w, h) == {Coords(x, y) : x \in 0..(w - 1), y \in 0..(h - 1)}

\* the cells of a set as a sequence, in row-major order
RECURSIVE InOrder(_, _)
InOrder(cells, w) ==
    IF cells = {}
    THEN <<>>
    ELSE LET first == CHOOSE p \in cells :
                        \A q \in cells : p.y * w + p.x <= q.y * w + q.x
         IN  <<first>> \o InOrder(cells \ {first}, w)

\* any occupancy of any board: a set of snake cells (not empty) and a set of
\* food cells apart from them
InitSampler ==
    \E w \in 1..MaxCells, h \in 1..MaxCells :
        /\ w * h <= MaxCells
        /\ \E taken \in SUBSET BoardCells(w, h) :
             \E foods \in SUBSET taken :
                /\ taken \ foods # {}
                /\ Start([conf |-> [food_to_speed_up |-> 0,
                                    food_n |-> Cardinality(foods),
                                    initial_speed |-> u32(1), height |-> h,
                                    width |-> w, initial_length |-> 1,
                                    solid_walls |-> FALSE],
                          snake |-> InOrder(taken \ foods, w),
                          snake_dir |-> Right,
                          food |-> [i \in 1..Cardinality(foods) |->
                                      [pos |-> InOrder(foods, w)[i], id |-> 0]],
                          status |-> Ongoing,
                          score |-> 0,
                          speed |-> u32(1)])

\* one call self.find_new_food_place()
Sample ==
    /\ app = NoApp
    /\ \E r \in sampler_runs(conf, snake, food) :
          app' = [fn |-> "find_new_food_place",
                  choosen_spot |-> r.choosen_spot, out |-> r.out]
    /\ UNCHANGED <<game_vars, loop_vars, pre>>

NextSampler == Sample

SpecSampler == InitSampler /\ [][NextSampler]_vars

(* ---------------------- the Coords functions alone --------------------- *)
\* a game on any board up to MaxCells cells; the coordinates are drawn by
\* the calls below
InitCoords ==
    \E w \in 1..MaxCells, h \in 1..MaxCells :
        /\ w * h <= MaxCells
        /\ \E g \in new([food_to_speed_up |-> 0, food_n |-> 0,
                          initial_speed |-> u32(1), height |-> h, width |-> w,
                          initial_length |-> 1, solid_walls |-> FALSE]) :
              Start(g)

\* how many moves along dir's axis take a point around the board
AxisLen(dir) == IF dir \in {Left, Right} THEN conf.width ELSE conf.height

\* self.move_wrapping(dir, w, h) on any point of the board
MoveWrapping ==
    /\ app = NoApp
    /\ \E self \in BoardCells(conf.width, conf.height), dir \in Dir :
          app' = [fn |-> "move_wrapping", origin |-> self, dir |-> dir,
                  self |-> self, n |-> 1,
                  out |-> move_wrapping(self, dir, conf.width, conf.height)]
    /\ UNCHANGED <<game_vars, loop_vars, pre>>

\* move_wrapping again, on the point the latest call returned, until the
\* point has been moved once around the board
MoveWrappingAgain ==
    /\ app.fn = "move_wrapping"
    /\ app.n < AxisLen(app.dir)
    /\ app' = [app EXCEPT !.self = app.out, !.n = app.n + 1,
                          !.out = move_wrapping(app.out, app.dir,
                                                conf.width, conf.height)]
    /\ UNCHANGED <<game_vars, loop_vars, pre>>

\* self.move_bumping(dir, w, h) on any point of the board
MoveBumping ==
    /\ app = NoApp
    /\ \E self \in BoardCells(conf.width, conf.height), dir \in Dir :
          app' = [fn |-> "move_bumping", self |-> self, dir |-> dir,
                  out |-> move_bumping(self, dir, conf.width, conf.height)]
    /\ UNCHANGED <<game_vars, loop_vars, pre>>

\* self.is_perpendicular(other) on any two directions, and the other way
\* round
IsPerpendicular ==
    /\ app = NoApp
    /\ \E self \in Dir, other \in Dir :
          app' = [fn |-> "is_perpendicular", self |-> self, other |-> other,
                  out |-> is_perpendicular(self, other),
                  swapped |-> is_perpendicular(other, self)]
    /\ UNCHANGED <<game_vars, loop_vars, pre>>

\* self.compare(other, w, h) on any two points of the board, adjacent or not
Compare ==
    /\ app = NoApp
    /\ \E self \in BoardCells(conf.width, conf.height),
          other \in BoardCells(conf.width, conf.height) :
          app' = [fn |-> "compare", self |-> self, other |-> other,
                  out |-> compare(self, other, conf.width, conf.height)]
    /\ UNCHANGED <<game_vars, loop_vars, pre>>

NextCoords ==
    \/ Compare
    \/ MoveWrapping
    \/ MoveWrappingAgain
    \/ MoveBumping
    \/ IsPerpendicular

SpecCoords == InitCoords /\ [][NextCoords]_vars

(* -------------------------- the driving loop --------------------------- *)
InitLoop ==
    \E c \in GameConf(LoopMaxCells, LoopMaxFoodN, LoopMaxSpeedUp, {u32(1)}) :
        /\ create_game_conf(c)
        /\ c.width * c.height <= LoopMaxCells
        /\ \E g \in new(c) : Start(g)

\* handle_inputs reads a direction key
KeyDir(input) ==
    /\ pc = "poll"
    /\ input_buf' = buffer_input(input_buf, snake_dir, input)
    /\ app' = [fn |-> "buffer_input", buf |-> input_buf, dir |-> snake_dir,
               input |-> input, out |-> input_buf']
    /\ UNCHANGED <<game_vars, clear, pc, game_result, pre>>

\* handle_inputs reads a resize event
Resize ==
    /\ pc = "poll"
    /\ clear' = TRUE
    /\ UNCHANGED <<game_vars, input_buf, pc, game_result, pre, app>>

\* mutant: the quit is acted on after the tick's step instead of before it
Quit_after_step ==
    /\ pc = "poll"
    /\ Step(None)
    /\ pc' = "done"
    /\ game_result' = Some("Interrupted")
    /\ UNCHANGED <<input_buf, clear, app>>

\* handle_inputs reads q or ctrl-c: run breaks with Interrupted
Quit ==
    /\ pc = "poll"
    /\ pc' = "done"
    /\ game_result' = Some("Interrupted")
    /\ UNCHANGED <<game_vars, input_buf, clear, pre, app>>

\* no event is left: handle_inputs returns, then turn_to_do, make_step, the
\* status check, and (when the loop goes on) render_game and frame_end
Tick ==
    /\ pc = "poll"
    /\ LET t == turn_to_do(input_buf, snake_dir)
       IN  /\ input_buf' = t.buf
           /\ app' = [fn |-> "turn_to_do", buf |-> input_buf,
                      dir |-> snake_dir, turn |-> t.turn, out |-> t.buf]
           /\ Step(t.turn)
    /\ clear' = FALSE
    /\ IF status' = Dead
       THEN pc' = "done" /\ game_result' = Some("Lose")
       ELSE IF status' = Win
            THEN pc' = "done" /\ game_result' = Some("Win")
            ELSE UNCHANGED <<pc, game_result>>

NextLoop ==
    \/ \E input \in Dir : KeyDir(input)
    \/ Resize
    \/ Quit
    \/ Tick

SpecLoop == InitLoop /\ [][NextLoop]_vars

(* ------------------- the loop up to the rendered frame ----------------- *)
InitRender ==
    \E c \in GameConf(RenderMaxCells, RenderMaxFoodN, 0, {u32(1)}) :
        /\ create_game_conf(c)
        /\ c.width * c.height <= RenderMaxCells
        /\ \E g \in new(c) : Start(g)

\* the direction keys one handle_inputs call may read
KeyRuns == UNION {[1..n -> Dir] : n \in 0..RenderMaxKeys}

\* one iteration of run with direction keys only: handle_inputs, turn_to_do,
\* make_step, the status check, and render_game when the loop goes on
Frame ==
    /\ pc = "poll"
    /\ \E keys \in KeyRuns :
          LET t == turn_to_do(handle_inputs(input_buf, snake_dir, keys),
                              snake_dir)
          IN  /\ input_buf' = t.buf
              /\ Step(t.turn)
    /\ IF status' = Dead
       THEN pc' = "done" /\ game_result' = Some("Lose") /\ UNCHANGED app
       ELSE IF status' = Win
            THEN pc' = "done" /\ game_result' = Some("Win") /\ UNCHANGED app
            ELSE /\ UNCHANGED <<pc, game_result>>
                 /\ app' = [fn |-> "render_game", out |-> render_game(game')]
    /\ UNCHANGED clear

NextRender == Frame

SpecRender == InitRender /\ [][NextRender]_vars

(* =========================== properties ================================ *)
\* the game before the latest make_step call
before == pre.game
before_head == before.snake[1]
before_tail == before.snake[Len(before.snake)]

\* the cell the call aimed the head at (None: off a solid-walled board)
target == new_head(before, snake_dir)

FoodCells(fd) == {fd[i].pos : i \in 1..Len(fd)}

NoDuplicates(s) == \A i, j \in 1..Len(s) : i # j => s[i] # s[j]

InBoard(p) == 0 <= p.x /\ p.x < conf.width /\ 0 <= p.y /\ p.y < conf.height

\* C1: tail-vacancy exemption. A make_step on an Ongoing game whose head moves
\* into the cell the tail held before the step, with no food on that cell,
\* leaves the game Ongoing, the length unchanged and the head on that cell.
C1_TailVacancy ==
    (/\ pre.called
     /\ before.status = Ongoing
     /\ target = Some(before_tail)
     /\ before_tail \notin FoodCells(before.food))
    => /\ status = Ongoing
       /\ Len(snake) = Len(before.snake)
       /\ snake[1] = before_tail

\* C1 witness: a snake of length >= 3 has just stepped onto its own tail cell
C1_Witness ==
    /\ pre.called
    /\ before.status = Ongoing
    /\ Len(before.snake) >= 3
    /\ target = Some(before_tail)
    /\ snake[1] = before_tail
    /\ status = Ongoing

\* C2 (as claimed): when the new head is a body cell other than the pre-step
\* tail, the status becomes Dead and snake, food, score and speed keep their
\* pre-step values.
C2_SelfCollisionFrame ==
    (/\ pre.called
     /\ before.status = Ongoing
     /\ IsSome(target)
     /\ Unwrap(target) \in Elems(pop_back(before.snake)))
    => /\ status = Dead
       /\ snake = before.snake
       /\ food = before.food
       /\ score = before.score
       /\ speed = before.speed

\* C3 (as claimed): across a make_step the length never decreases, and it
\* grows only by exactly 1 and only when the step consumed a food.
C3_LengthMonotone ==
    pre.called
    => /\ Len(snake) >= Len(before.snake)
       /\ Len(snake) > Len(before.snake)
          => /\ Len(snake) = Len(before.snake) + 1
             /\ IsSome(target)
             /\ Unwrap(target) \in FoodCells(before.food)
             /\ score = before.score + 1

\* C4: in every state reached from construction by make_step calls made while
\* Ongoing, no two elements of the snake are the same coordinate.
C4_SnakeDistinct == NoDuplicates(snake)

\* C4 witness: on a wrapping board of width <= 2 a snake of length >= 3 has
\* just eaten and got its old tail back
C4_Witness ==
    /\ pre.called
    /\ ~conf.solid_walls
    /\ conf.width <= 2
    /\ score = before.score + 1
    /\ Len(snake) >= 3
    /\ snake[Len(snake)] = before_tail

\* C5: every snake element and every food position lies on the board.
C5_InBounds ==
    /\ \A i \in 1..Len(snake) : InBoard(snake[i])
    /\ \A i \in 1..Len(food) : InBoard(food[i].pos)

\* C5 witness: the head has just wrapped from the right edge to column 0 of a
\* board at least 2 wide, with a food on the board
C5_Witness ==
    /\ pre.called
    /\ ~conf.solid_walls
    /\ conf.width >= 2
    /\ before_head.x = conf.width - 1
    /\ snake_dir = Right
    /\ status = Ongoing
    /\ snake[1].x = 0
    /\ Len(food) >= 1

\* C6: in every settled Ongoing state no food lies on a snake cell and no two
\* foods share a position.
C6_FoodApart ==
    status = Ongoing
    => /\ FoodCells(food) \cap Elems(snake) = {}
       /\ \A i, j \in 1..Len(food) : i # j => food[i].pos # food[j].pos

\* C6 witness: a food was just eaten and replaced, two foods are active
C6_Witness ==
    /\ pre.called
    /\ status = Ongoing
    /\ score = before.score + 1
    /\ Len(food) = 2
    /\ Len(snake) >= 2

\* the head is on the edge that direction d leaves the board by
OnEdge(p, d) ==
    \/ d = Left /\ p.x = 0
    \/ d = Right /\ p.x = conf.width - 1
    \/ d = Up /\ p.y = 0
    \/ d = Down /\ p.y = conf.height - 1

\* the cell on the opposite edge, same row or column
OppositeEdge(p, d) ==
    CASE d = Left  -> Coords(conf.width - 1, p.y)
      [] d = Right -> Coords(0, p.y)
      [] d = Up    -> Coords(p.x, conf.height - 1)
      [] d = Down  -> Coords(p.x, 0)

\* C8: with the head on a boundary edge and the direction (after the turn)
\* pointing off the board: under solid walls the status becomes Dead and snake,
\* food, score and speed are as before the step; under wrapping walls the step
\* is Dead only by self-collision, and otherwise the head is on the opposite
\* edge.
C8_WallPolicy ==
    (/\ pre.called
     /\ before.status = Ongoing
     /\ OnEdge(before_head, snake_dir))
    => IF conf.solid_walls
       THEN /\ status = Dead
            /\ snake = before.snake
            /\ food = before.food
            /\ score = before.score
            /\ speed = before.speed
       ELSE /\ status = Dead
               => OppositeEdge(before_head, snake_dir)
                      \in Elems(pop_back(before.snake))
            /\ status # Dead
               => snake[1] = OppositeEdge(before_head, snake_dir)

\* C8 witness: under solid walls a snake that has eaten turned into the wall
C8_Witness ==
    /\ pre.called
    /\ conf.solid_walls
    /\ IsSome(pre.turn)
    /\ before.snake_dir # snake_dir
    /\ OnEdge(before_head, snake_dir)
    /\ before.score >= 1
    /\ status = Dead

\* C9: 10x10, solid walls, length 3, no turns: the game is Ongoing after every
\* tick that keeps the head inside [0,10) and Dead after the first tick that
\* would take it out, whatever the foods.
C9_WallScenario ==
    IF pre.called
    THEN IF before_head.x + 1 < 10
         THEN status = Ongoing /\ snake[1] = Coords(before_head.x + 1, 5)
         ELSE status = Dead
    ELSE status = Ongoing /\ snake[1] = Coords(5, 5) /\ snake_dir = Right

\* C9 witness: the fifth tick, head on column 9, ends the game after a food
\* was eaten on the way
C9_Witness ==
    /\ pre.called
    /\ before_head = Coords(9, 5)
    /\ Len(before.snake) = 4
    /\ status = Dead

\* C10: GameState::new yields Win exactly when the free cells are fewer than
\* food_n; otherwise Ongoing with score 0, the initial speed and food_n foods.
C10_Construction ==
    ~pre.called
    => LET free == conf.width * conf.height - conf.initial_length
       IN  /\ status = Win <=> free < conf.food_n
           /\ status # Win
              => /\ status = Ongoing
                 /\ score = 0
                 /\ speed = conf.initial_speed
                 /\ Len(food) = conf.food_n

\* C10 witness: the 2x1 board, length 2, one food: Win before any step
C10_Witness ==
    /\ ~pre.called
    /\ conf.width = 2 /\ conf.height = 1
    /\ conf.initial_length = 2
    /\ conf.food_n = 1
    /\ status = Win

\* C7 (as claimed): once the status is Dead or Win no field of the game state
\* changes again.
C7_Terminal ==
    [][(status \in {Dead, Win}) => (game_vars' = game_vars)]_vars

\* the board's cells that hold neither snake nor food
FreeCells ==
    BoardCells(conf.width, conf.height) \ (Elems(snake) \cup FoodCells(food))

\* the n-th free cell in row-major order, x fastest (n from 1)
NthFree(n) ==
    CHOOSE p \in FreeCells :
        Cardinality({q \in FreeCells :
                       q.y * conf.width + q.x < p.y * conf.width + p.x}) = n - 1

\* C11: find_new_food_place returns nothing iff no cell is free; otherwise,
\* for the drawn k in [0, free), it returns the (k+1)-th free cell in
\* row-major order, on the board and unoccupied, so the only free cell when
\* there is exactly one.
C11_Sampler ==
    app.fn = "find_new_food_place"
    => /\ app.out = None <=> FreeCells = {}
       /\ app.out # None
          => /\ IsSome(app.choosen_spot)
             /\ Unwrap(app.choosen_spot) \in 0..(Cardinality(FreeCells) - 1)
             /\ Unwrap(app.out).pos = NthFree(Unwrap(app.choosen_spot) + 1)
             /\ InBoard(Unwrap(app.out).pos)
             /\ Unwrap(app.out).pos \in FreeCells
             /\ Cardinality(FreeCells) = 1 => FreeCells = {Unwrap(app.out).pos}

\* C11 witness: snake and food leave one cell free, which is not the first
\* cell of the board, and the call returned it
C11_Witness ==
    /\ app.fn = "find_new_food_place"
    /\ Len(food) >= 1
    /\ Cardinality(FreeCells) = 1
    /\ Coords(0, 0) \notin FreeCells
    /\ FreeCells = {Unwrap(app.out).pos}

\* the latest make_step call was made on an Ongoing game and aimed the head at
\* a cell holding a food
OnFood ==
    /\ pre.called
    /\ before.status = Ongoing
    /\ IsSome(target)
    /\ Unwrap(target) \in FoodCells(before.food)

NotOn(f) == f.pos # Unwrap(target)

\* C12: when the new head is on a food, that food is removed, the snake is
\* the new head followed by the whole pre-step snake, the score is one more
\* and every other food is unchanged; when it is on no food, score, speed and
\* food list are unchanged.
C12_Eating ==
    /\ OnFood
       => /\ snake = <<Unwrap(target)>> \o before.snake
          /\ score = before.score + 1
          /\ Unwrap(target) \notin FoodCells(food)
          /\ SubSeq(food, 1, Len(before.food) - 1)
               = SelectSeq(before.food, NotOn)
          /\ Len(food) <= Len(before.food)
    /\ (pre.called /\ before.status = Ongoing /\ ~OnFood)
       => /\ score = before.score
          /\ speed = before.speed
          /\ food = before.food

\* C12 witness: the second of two foods was eaten by a snake of length >= 2,
\* the first is still there and a new one follows it
C12_Witness ==
    /\ OnFood
    /\ Len(before.food) = 2
    /\ before.food[2].pos = Unwrap(target)
    /\ Len(before.snake) >= 2
    /\ Len(food) = 2
    /\ food[1] = before.food[1]
    /\ score = before.score + 1

\* after the step's growth, snake and the foods not eaten cover the board
BoardFull ==
    Elems(snake) \cup FoodCells(SelectSeq(before.food, NotOn))
        = BoardCells(conf.width, conf.height)

\* C13: a make_step from an Ongoing state ends in Win iff it consumed a food
\* and, the snake grown, snake and remaining foods cover every cell; a step
\* that eats nothing never ends in Win.
C13_WinTransition ==
    (pre.called /\ before.status = Ongoing)
    => /\ status = Win <=> (OnFood /\ BoardFull)
       /\ ~OnFood => status # Win

\* C13 witness: a snake of length >= 3 ate, a food it did not eat is still on
\* the board, no cell is free and the game is won
C13_Witness ==
    /\ OnFood
    /\ status = Win
    /\ Len(snake) >= 3
    /\ Len(food) >= 1
    /\ BoardFull

\* min(s + n, u32::MAX) for a limb pair s and 0 <= n < 2^16
PlusCapped(s, n) ==
    IF n <= (Limb - 1) - s[2]
    THEN <<s[1], s[2] + n>>
    ELSE IF s[1] = Limb - 1
         THEN <<Limb - 1, Limb - 1>>
         ELSE <<s[1] + 1, s[2] + n - Limb>>

\* C14: in every reachable state, with T = food_to_speed_up > 0 the speed is
\* min(initial_speed + floor(score / T), u32::MAX); with T = 0 it is
\* initial_speed.
C14_SpeedFormula ==
    IF conf.food_to_speed_up > 0
    THEN speed = PlusCapped(conf.initial_speed,
                            score \div conf.food_to_speed_up)
    ELSE speed = conf.initial_speed

\* C14 witness: from u32::MAX - 1 with T = 1, a second food was just eaten
\* and the speed stays at u32::MAX
C14_Witness ==
    /\ OnFood
    /\ conf.food_to_speed_up = 1
    /\ conf.initial_speed = <<Limb - 1, Limb - 2>>
    /\ score = 2
    /\ speed = <<Limb - 1, Limb - 1>>

\* C15: across every make_step, also one that ends in Dead or Win, score and
\* speed do not decrease.
C15_Monotone ==
    pre.called
    => /\ before.score <= score
       /\ \/ before.speed[1] < speed[1]
          \/ before.speed[1] = speed[1] /\ before.speed[2] <= speed[2]

\* C15 witness: a step that ate, raised the speed and ended in Win
C15_Witness ==
    /\ OnFood
    /\ status = Win
    /\ score = before.score + 1
    /\ speed # before.speed

\* one direction is horizontal and the other vertical
Crossing(a, b) == (a \in {Left, Right}) # (b \in {Left, Right})

Opposite(d) ==
    CASE d = Left -> Right
      [] d = Right -> Left
      [] d = Up -> Down
      [] d = Down -> Up

\* C16: buffer_input leaves the buffer as it was when the buffer is empty and
\* the candidate is not perpendicular to the snake's direction, and when the
\* candidate equals the last pending direction; in every other case with room
\* it appends the candidate at the back (so also a non-perpendicular candidate
\* when the buffer is not empty, and a repeated one only once).
C16_Offer ==
    app.fn = "buffer_input"
    => LET q == app.buf
           first_not_crossing == Len(q) = 0 /\ ~Crossing(app.input, app.dir)
           repeats_last == Len(q) > 0 /\ q[Len(q)] = app.input
       IN  /\ (first_not_crossing \/ repeats_last) => app.out = q
           /\ (~first_not_crossing /\ ~repeats_last /\ Len(q) < 5)
              => app.out = q \o <<app.input>>

\* C16 witness: a candidate opposite to the snake's direction was appended to
\* a buffer that was not empty
C16_Witness ==
    /\ app.fn = "buffer_input"
    /\ Len(app.buf) >= 1
    /\ app.input = Opposite(app.dir)
    /\ app.out = app.buf \o <<app.input>>

\* C17: the buffer never holds more than 5 directions, and an offer made to a
\* buffer of 5 leaves contents and order unchanged.
C17_Capacity ==
    /\ Len(input_buf) <= 5
    /\ (app.fn = "buffer_input" /\ Len(app.buf) = 5) => app.out = app.buf

\* C17 witness: a candidate that is not the last pending one was offered to a
\* buffer of 5 and dropped
C17_Witness ==
    /\ app.fn = "buffer_input"
    /\ Len(app.buf) = 5
    /\ app.buf[5] # app.input
    /\ input_buf = app.buf

\* the positions of q that are perpendicular to d
CrossingAt(q, d) == {i \in 1..Len(q) : Crossing(q[i], d)}

Oldest(is) == CHOOSE i \in is : \A j \in is : i <= j

\* C18: turn_to_do returns the oldest pending direction perpendicular to the
\* snake's direction and leaves exactly the entries enqueued after it, in
\* order; with no such entry it returns nothing and leaves the buffer empty.
C18_NextTurn ==
    app.fn = "turn_to_do"
    => LET q == app.buf
           is == CrossingAt(q, app.dir)
       IN  IF is = {}
           THEN app.turn = None /\ app.out = <<>>
           ELSE /\ app.turn = Some(q[Oldest(is)])
                /\ app.out = SubSeq(q, Oldest(is) + 1, Len(q))

\* C18 witness: the oldest entry was discarded, a later one returned and at
\* least one entry is left behind it
C18_Witness ==
    /\ app.fn = "turn_to_do"
    /\ CrossingAt(app.buf, app.dir) # {}
    /\ Oldest(CrossingAt(app.buf, app.dir)) >= 2
    /\ Len(app.out) >= 1
    /\ input_buf = app.out

\* C19: the direction turn_to_do hands to make_step is never the snake's
\* direction nor its opposite, so after each tick the direction is unchanged
\* or perpendicular to what it was.
C19_NoReversal ==
    pre.called
    => /\ IsSome(pre.turn)
          => /\ Unwrap(pre.turn) # before.snake_dir
             /\ Unwrap(pre.turn) # Opposite(before.snake_dir)
       /\ \/ snake_dir = before.snake_dir
          \/ Crossing(snake_dir, before.snake_dir)

\* C19 witness: a pending reversal was discarded and the entry behind it
\* turned the snake
C19_Witness ==
    /\ pre.called
    /\ app.fn = "turn_to_do"
    /\ Len(app.buf) >= 2
    /\ app.buf[1] = Opposite(before.snake_dir)
    /\ IsSome(pre.turn)
    /\ snake_dir = Unwrap(pre.turn)
    /\ snake_dir # before.snake_dir

\* C20: on every board, from every point and in every direction d:
\* move_wrapping stays on the board, move_wrapping by the opposite of d undoes
\* it, and width moves (height moves for a vertical d) lead back to the start.
C20_WrapRoundTrip ==
    app.fn = "move_wrapping"
    => /\ InBoard(app.out)
       /\ move_wrapping(app.out, Opposite(app.dir), conf.width, conf.height)
            = app.self
       /\ app.n = (IF app.dir \in {Left, Right} THEN conf.width
                                                ELSE conf.height)
          => app.out = app.origin

\* C20 witness: height moves up a board at least 3 high and wider or narrower
\* than high, from the top row (the first move wraps), end where they started
C20_Witness ==
    /\ app.fn = "move_wrapping"
    /\ app.dir = Up
    /\ conf.height >= 3
    /\ conf.width # conf.height
    /\ app.origin.y = 0
    /\ app.n = conf.height
    /\ app.out = app.origin

\* C21: move_bumping returns None exactly when the point is on the edge the
\* direction leaves the board by (x = 0 for Left, x = w-1 for Right, y = 0 for
\* Up, y = h-1 for Down); otherwise it returns the neighbour, which is on the
\* board and is what move_wrapping returns for the same arguments.
C21_Bumping ==
    app.fn = "move_bumping"
    => /\ (app.out = None) <=> OnEdge(app.self, app.dir)
       /\ IsSome(app.out)
          => /\ InBoard(Unwrap(app.out))
             /\ Unwrap(app.out)
                  = move_wrapping(app.self, app.dir, conf.width, conf.height)
             /\ Unwrap(app.out)
                  = CASE app.dir = Left  -> Coords(app.self.x - 1, app.self.y)
                      [] app.dir = Right -> Coords(app.self.x + 1, app.self.y)
                      [] app.dir = Up    -> Coords(app.self.x, app.self.y - 1)
                      [] app.dir = Down  -> Coords(app.self.x, app.self.y + 1)

\* C21 witness: a downward move off the lower edge of a board more than one
\* cell high returns None
C21_Witness ==
    /\ app.fn = "move_bumping"
    /\ app.dir = Down
    /\ conf.height >= 2
    /\ app.self.y = conf.height - 1
    /\ app.out = None

\* C22: is_perpendicular(a, b) is true exactly when one of a, b is Left or
\* Right and the other is Up or Down; so it is false for (d, d) and for
\* (d, opposite(d)), and it gives the same answer for (b, a).
C22_TruthTable ==
    app.fn = "is_perpendicular"
    => /\ app.out <=> \/ app.self \in {Left, Right} /\ app.other \in {Up, Down}
                      \/ app.self \in {Up, Down} /\ app.other \in {Left, Right}
       /\ app.other \in {app.self, Opposite(app.self)} => ~app.out
       /\ app.swapped = app.out

\* C22 witness: a direction and its opposite are found not perpendicular
C22_Witness ==
    /\ app.fn = "is_perpendicular"
    /\ app.self = Up
    /\ app.other = Down
    /\ ~app.out

\* two different cells one wrapping move apart
Adjacent(a, b) ==
    /\ a # b
    /\ \E d \in Dir : b = move_wrapping(a, d, conf.width, conf.height)

\* C23: for two adjacent cells a and b (wrap-adjacent ones included),
\* a.compare(b) returns a direction that leads from a to b: a direction d with
\* b = a.move_wrapping(d).
C23_CompareDirection ==
    (app.fn = "compare" /\ Adjacent(app.self, app.other))
    => /\ app.out # Panic
       /\ move_wrapping(app.self, app.out[1], conf.width, conf.height)
            = app.other

\* C24: on every board, compare called on two identical cells, or on two cells
\* that are neither adjacent nor wrap-adjacent, panics and returns no
\* direction.
C24_FailFast ==
    (app.fn = "compare" /\ ~Adjacent(app.self, app.other))
    => app.out = Panic

\* the latest frame was rendered from the game as it is now
Rendered == status = Ongoing /\ app.fn = "render_game"

\* cell q is the neighbour of cell p on side d, under the game's wall policy
Lies(q, p, d) ==
    IF conf.solid_walls
    THEN Some(q) = move_bumping(p, d, conf.width, conf.height)
    ELSE q = move_wrapping(p, d, conf.width, conf.height)

\* the body shape that joins the neighbours on sides d1 and d2
Joining(d1, d2) ==
    CASE {d1, d2} = {Up, Down}    -> FieldCell("BodyVertical")
      [] {d1, d2} = {Left, Right} -> FieldCell("BodyHorizontal")
      [] {d1, d2} = {Down, Right} -> FieldCell("BodyUpLeft")
      [] {d1, d2} = {Up, Right}   -> FieldCell("BodyDownLeft")
      [] {d1, d2} = {Down, Left}  -> FieldCell("BodyUpRight")
      [] {d1, d2} = {Up, Left}    -> FieldCell("BodyDownRight")

\* C25: in every rendered frame, every interior snake element has the shape
\* that joins the two sides its neighbours lie on: BodyVertical for above and
\* below, BodyHorizontal for left and right, the corner of the two sides
\* otherwise; and body_from gives the same shape for (d1, d2) and (d2, d1).
C25_InteriorShapes ==
    /\ \A d1, d2 \in Dir : body_from(d1, d2) = body_from(d2, d1)
    /\ Rendered
       => /\ app.out # Panic
          /\ \A i \in 2..(Len(snake) - 1) :
                \E d1, d2 \in Dir :
                    /\ d1 # d2
                    /\ Lies(snake[i - 1], snake[i], d1)
                    /\ Lies(snake[i + 1], snake[i], d2)
                    /\ app.out[1][snake[i]] = Joining(d1, d2)

\* C26: in every rendered frame of a snake of length 2 or more, the head cell
\* has the head shape of the movement direction, and the tail cell has the
\* tail shape of the direction that takes the tail's predecessor to the tail
\* under the game's wall policy.
C26_HeadTailShapes ==
    (Rendered /\ Len(snake) >= 2)
    => /\ app.out # Panic
       /\ app.out[1][snake[1]] = head_from(snake_dir)
       /\ \E d \in Dir :
             /\ Lies(snake[Len(snake)], snake[Len(snake) - 1], d)
             /\ app.out[1][snake[Len(snake)]] = tail_from(d)

HeadShapes == {head_from(d) : d \in Dir}
TailShapes == {tail_from(d) : d \in Dir}
BodyShapes == {body_from(d1, d2) : d1, d2 \in Dir}

\* C27: in every rendered frame, consecutive snake elements are different
\* cells next to each other under the wall policy, the derivation does not
\* panic, a snake of length 1 gets a head mark and no tail mark, a snake of
\* length 2 a head and a tail mark and no body mark, and every cell that holds
\* neither snake nor food is Empty.
C27_NoFault ==
    Rendered
    => /\ \A i \in 1..(Len(snake) - 1) :
             /\ snake[i] # snake[i + 1]
             /\ \E d \in Dir : Lies(snake[i + 1], snake[i], d)
       /\ app.out # Panic
       /\ \A p \in DOMAIN app.out[1] :
             /\ p \notin Elems(snake) \cup FoodCells(food)
                => app.out[1][p] = Empty
             /\ app.out[1][p] \in HeadShapes <=> p = snake[1]
             /\ app.out[1][p] \in TailShapes
                <=> (Len(snake) >= 2 /\ p = snake[Len(snake)])
             /\ app.out[1][p] \in BodyShapes
                <=> \E i \in 2..(Len(snake) - 1) : p = snake[i]

\* C27 witness: a snake of length 1 is rendered after a step, with food on
\* the board
C27_Witness ==
    /\ Rendered
    /\ pre.called
    /\ Len(snake) = 1
    /\ Len(food) >= 1
    /\ app.out # Panic
    /\ app.out[1][snake[1]] \in HeadShapes

\* C28: a quit read while polling ends the loop with Interrupted and without a
\* make_step, in that tick and ever after: the game stays as the previous tick
\* left it. A resize only asks for a clear, and the tick that follows it makes
\* one make_step, with the turn the buffer gives for the snake's direction.
C28_QuitResize ==
    [][/\ game_result' = Some("Interrupted")
          => pc' = "done" /\ game_vars' = game_vars /\ pre' = pre
       /\ pc = "done" => game_vars' = game_vars /\ pre' = pre
       /\ (~clear /\ clear')
          => /\ game_vars' = game_vars
             /\ <<input_buf, pc, game_result, pre>>' =
                  <<input_buf, pc, game_result, pre>>
       /\ (clear /\ ~clear')
          => /\ pre' = [called |-> TRUE, game |-> game,
                        turn |-> turn_to_do(input_buf, snake_dir).turn]
             /\ game' \in make_step(game, pre'.turn)]_vars

\* C28 witness: after a step, a later tick reads a key and a resize and then
\* a quit: the loop is over with Interrupted
C28_Witness ==
    /\ game_result = Some("Interrupted")
    /\ pc = "done"
    /\ pre.called
    /\ clear
    /\ input_buf # <<>>

\* C29: in every Ongoing state the number of foods on the board is the
\* configured food_n, and the food list is shorter than food_n only in a Win
\* state.
C29_FoodCount ==
    /\ status = Ongoing => Len(food) = conf.food_n
    /\ Len(food) < conf.food_n => status = Win

\* C30: in every Ongoing or Win state the snake's length is initial_length +
\* score, snake and foods together fit the board, and so the score is at most
\* width * height - initial_length.
C30_LengthScore ==
    status \in {Ongoing, Win}
    => /\ Len(snake) = conf.initial_length + score
       /\ Len(snake) + Len(food) <= conf.width * conf.height
       /\ score <= conf.width * conf.height - conf.initial_length

\* C30 witness: a game won by eating: the latest step ate the last food, the
\* second one at least, and the snake fills the board
C30_Witness ==
    /\ pre.called
    /\ status = Win
    /\ before.status = Ongoing
    /\ score >= 2
    /\ Len(snake) = conf.width * conf.height

====
